---------------------------- MODULE Spec2Model ----------------------------
(***************************************************************************)
(* Model of the factory layer of H-PON:                                    *)
(*   src/src/data/data_factory.py    dataset / data-loader factories       *)
(*   src/src/models/model_factory.py model / criterion factories           *)
(*                                                                         *)
(* Every factory is a synchronous function of (name, config).  A factory   *)
(* is modelled by an operator that returns a record                        *)
(*   [exc, value, events]                                                  *)
(* where `events' lists, in program order, every constructor call and      *)
(* every side effect (print, .cuda()) the call performed before it         *)
(* returned or raised.  One action per factory applies the operator to an  *)
(* argument drawn from a small set and stores the outcome in `last'.       *)
(***************************************************************************)
EXTENDS Integers, Sequences, FiniteSets, TLC

VARIABLES
    config,              \* the configuration record handed to every factory
    TRAIN_SCENES,        \* module-level lists imported from nuscenes/splits
    VAL_SCENES,
    CALIBRATION_SCENES,
    current_device,      \* torch's process-wide current CUDA device: 0
                         \* unless torch.cuda.set_device is called, which
                         \* no factory does
    stdout,              \* what the process has printed so far
    last                 \* outcome of the most recent factory call

vars == <<config, TRAIN_SCENES, VAL_SCENES, CALIBRATION_SCENES,
          current_device, stdout, last>>

---------------------------------------------------------------------------
(* Bounds of the model.                                                    *)

NumDevices == 2
MaxGpus == 2
NumScenes == 2
MaxStrides == 2
MaxStride == 2
MaxResolution == 2
MaxChannels == 2
MaxPrints == 2

(* Program constants.                                                      *)

FrontendChannels == 256

Devices == 0 .. (NumDevices - 1)
Scenes == 1 .. NumScenes

DatasetNames == {"nuscenes", "argoverse", "kitti"}
ModelNames == {"pon", "hpon", "ved", "vpn", "PON", "unet"}
LossNames == {"focal", "prior", "bce"}
HflipValues == {0, 1}

---------------------------------------------------------------------------
(* Generic helpers.                                                        *)

SetOf(seq) == {seq[i] : i \in DOMAIN seq}

\* All lists that enumerate the finite set S once each: the possible results
\* of Python's list(S), whose order is not specified.
Perms(S) ==
    {s \in [1 .. Cardinality(S) -> S] :
        \A i, j \in 1 .. Cardinality(S) : i # j => s[i] # s[j]}

Ascending(S) ==
    CHOOSE s \in Perms(S) : \A i, j \in DOMAIN s : i < j => s[i] < s[j]

SeqsUpTo(S, n) == UNION {[1 .. k -> S] : k \in 0 .. n}

None == [type |-> "None"]
NoException == [type |-> "none", arg |-> ""]

Return(v, ev) == [exc |-> NoException, value |-> v, events |-> ev]
Raise(kind, arg, ev) ==
    [exc |-> [type |-> kind, arg |-> arg], value |-> None, events |-> ev]

cpu == [type |-> "cpu", index |-> 0]
CudaDevice(i) == [type |-> "cuda", index |-> i]

\* Module.cuda() with no argument: moves the module, in place, to the
\* process's current CUDA device.
cuda(module) == [module EXCEPT !.device = CudaDevice(current_device)]

\* nn.DataParallel(module, device_ids)
DataParallel(module, device_ids) ==
    [type |-> "DataParallel", module |-> module, device_ids |-> device_ids]

---------------------------------------------------------------------------
(* data_factory.py                                                         *)

PROGRESS_MESSAGE == "==> Loading NuScenes dataset..."

NuScenesMapDataset(scenes) ==
    [type |-> "NuScenesMapDataset", scenes |-> scenes]

AugmentedMapDataset(dataset, hflip) ==
    [type |-> "AugmentedMapDataset", dataset |-> dataset, hflip |-> hflip]

RandomSampler(data_source) ==
    [type |-> "RandomSampler", data_source |-> data_source,
     replacement |-> TRUE]

DataLoader(dataset, sampler) ==
    [type |-> "DataLoader", dataset |-> dataset, sampler |-> sampler]

\* Mutant: the hold-out flag is ignored and the full training list is used.
build_nuscenes_datasets_no_holdout(cfg, set_order) ==
    Return(<<NuScenesMapDataset(TRAIN_SCENES), NuScenesMapDataset(VAL_SCENES)>>,
           <<PROGRESS_MESSAGE, "NuScenes",
             "NuScenesMapDataset", "NuScenesMapDataset">>)

\* set_order: the order in which list(set(TRAIN_SCENES) -
\* set(CALIBRATION_SCENES)) happens to enumerate the difference.
build_nuscenes_datasets(cfg, set_order) ==
    LET train_scenes == IF cfg.hold_out_calibration
                        THEN set_order
                        ELSE TRAIN_SCENES
        train_data == NuScenesMapDataset(train_scenes)
        val_data == NuScenesMapDataset(VAL_SCENES)
    IN  Return(<<train_data, val_data>>,
               <<PROGRESS_MESSAGE, "NuScenes",
                 "NuScenesMapDataset", "NuScenesMapDataset">>)

\* Mutant: the progress message is printed before the name is checked.
build_datasets_late_check(dataset_name, cfg, set_order) ==
    IF dataset_name = "nuscenes"
    THEN build_nuscenes_datasets(cfg, set_order)
    ELSE Raise("ValueError", dataset_name, <<PROGRESS_MESSAGE>>)

build_datasets(dataset_name, cfg, set_order) ==
    IF dataset_name = "nuscenes"
    THEN build_nuscenes_datasets(cfg, set_order)
    ELSE Raise("ValueError", dataset_name, <<>>)

\* Mutant: the augmentation wrapper is skipped when config.hflip is 0.
build_trainval_datasets_skip_zero(dataset_name, cfg, set_order) ==
    LET base == build_datasets(dataset_name, cfg, set_order)
    IN  IF base.exc # NoException \/ cfg.hflip = 0
        THEN base
        ELSE Return(<<AugmentedMapDataset(base.value[1], cfg.hflip),
                      base.value[2]>>,
                    base.events \o <<"AugmentedMapDataset">>)

build_trainval_datasets(dataset_name, cfg, set_order) ==
    LET base == build_datasets(dataset_name, cfg, set_order)
    IN  IF base.exc # NoException
        THEN base
        ELSE Return(<<AugmentedMapDataset(base.value[1], cfg.hflip),
                      base.value[2]>>,
                    base.events \o <<"AugmentedMapDataset">>)

build_dataloaders(dataset_name, cfg, set_order) ==
    LET data == build_trainval_datasets(dataset_name, cfg, set_order)
    IN  IF data.exc # NoException
        THEN data
        ELSE LET train_data == data.value[1]
                 val_data == data.value[2]
                 sampler == RandomSampler(train_data)
                 train_loader == DataLoader(train_data, sampler)
                 val_loader == DataLoader(val_data, None)
             IN  Return(<<train_loader, val_loader>>,
                        data.events \o
                        <<"RandomSampler", "DataLoader", "DataLoader">>)

---------------------------------------------------------------------------
(* model_factory.py                                                        *)

\* reduce(mul, strides) for a non-empty list: a left fold seeded with the
\* first element.
RECURSIVE reduce_mul_from(_, _, _)
reduce_mul_from(acc, seq, i) ==
    IF i > Len(seq) THEN acc ELSE reduce_mul_from(acc * seq[i], seq, i + 1)

reduce_mul(seq) == reduce_mul_from(seq[1], seq, 2)

VerticalTransformerPyramid(in_channels, channels, resolution) ==
    [type |-> "VerticalTransformerPyramid", in_channels |-> in_channels,
     channels |-> channels, resolution |-> resolution]

HorizontalTransformerPyramid(in_channels, v_ch, h_ch, resolution, method) ==
    [type |-> "HorizontalTransformerPyramid", in_channels |-> in_channels,
     v_channels |-> v_ch, h_channels |-> h_ch,
     resolution |-> resolution, method |-> method]

TopdownNetwork(in_channels, strides) ==
    [type |-> "TopdownNetwork", in_channels |-> in_channels,
     strides |-> strides]

\* Mutant: config.bayesian is ignored.
Classifier_always_linear(cfg) ==
    [type |-> "LinearClassifier", initialised |-> TRUE]

\* The classifier chosen by config.bayesian, after classifier.initialise.
Classifier(cfg) ==
    [type |-> IF cfg.bayesian THEN "BayesianClassifier"
              ELSE "LinearClassifier",
     initialised |-> TRUE]

build_pyramid_occupancy_network(cfg) ==
    LET frontend == [type |-> "FPN50"]
        tfm_resolution == cfg.map_resolution * reduce_mul(cfg.topdown_strides)
        transformer == VerticalTransformerPyramid(
                           FrontendChannels, cfg.vtfm_channels, tfm_resolution)
        topdown == TopdownNetwork(cfg.vtfm_channels, cfg.topdown_strides)
        classifier == Classifier(cfg)
    IN  Return([type |-> "PyramidOccupancyNetwork", frontend |-> frontend,
                transformer |-> transformer, topdown |-> topdown,
                classifier |-> classifier, device |-> cpu],
               <<"FPN50", "VerticalTransformerPyramid", "TopdownNetwork",
                 classifier.type, "initialise", "PyramidOccupancyNetwork">>)

\* Mutant: the horizontal pyramid is given the unscaled map resolution.
build_hpon_unscaled_horizontal(cfg, htfm_method) ==
    LET frontend == [type |-> "FPN50"]
        tfm_resolution == cfg.map_resolution * reduce_mul(cfg.topdown_strides)
        v_transformer == VerticalTransformerPyramid(
                             FrontendChannels, cfg.vtfm_channels,
                             tfm_resolution)
        h_transformer == HorizontalTransformerPyramid(
                             FrontendChannels, cfg.vtfm_channels,
                             cfg.htfm_channels, cfg.map_resolution,
                             htfm_method)
        topdown == TopdownNetwork(cfg.vtfm_channels + cfg.htfm_channels,
                                  cfg.topdown_strides)
        classifier == Classifier(cfg)
    IN  Return([type |-> "HorizontallyAwarePyramidOccupancyNetwork",
                frontend |-> frontend, v_transformer |-> v_transformer,
                h_transformer |-> h_transformer, topdown |-> topdown,
                classifier |-> classifier, device |-> cpu],
               <<"FPN50", "VerticalTransformerPyramid",
                 "HorizontalTransformerPyramid", "TopdownNetwork",
                 classifier.type, "initialise",
                 "HorizontallyAwarePyramidOccupancyNetwork">>)

build_horizontally_aware_pyramid_occupancy_network(cfg, htfm_method) ==
    LET frontend == [type |-> "FPN50"]
        tfm_resolution == cfg.map_resolution * reduce_mul(cfg.topdown_strides)
        v_transformer == VerticalTransformerPyramid(
                             FrontendChannels, cfg.vtfm_channels,
                             tfm_resolution)
        h_transformer == HorizontalTransformerPyramid(
                             FrontendChannels, cfg.vtfm_channels,
                             cfg.htfm_channels, tfm_resolution, htfm_method)
        topdown == TopdownNetwork(cfg.vtfm_channels + cfg.htfm_channels,
                                  cfg.topdown_strides)
        classifier == Classifier(cfg)
    IN  Return([type |-> "HorizontallyAwarePyramidOccupancyNetwork",
                frontend |-> frontend, v_transformer |-> v_transformer,
                h_transformer |-> h_transformer, topdown |-> topdown,
                classifier |-> classifier, device |-> cpu],
               <<"FPN50", "VerticalTransformerPyramid",
                 "HorizontalTransformerPyramid", "TopdownNetwork",
                 classifier.type, "initialise",
                 "HorizontallyAwarePyramidOccupancyNetwork">>)

build_variational_encoder_decoder(cfg) ==
    Return([type |-> "VariationalEncoderDecoder", device |-> cpu],
           <<"VariationalEncoderDecoder">>)

build_view_parsing_network(cfg) ==
    Return([type |-> "VPNModel", device |-> cpu], <<"VPNModel">>)

\* Lines 34-39 of build_model: device placement of the built model.
place_model(model, events, cfg) ==
    IF Len(cfg.gpus) > 1
    THEN Return(DataParallel(cuda(model), cfg.gpus),
                events \o <<"cuda", "DataParallel">>)
    ELSE IF Len(cfg.gpus) = 1
         THEN Return(cuda(model), events \o <<"cuda">>)
         ELSE Return(model, events)

build_model(model_name, cfg) ==
    LET built ==
            IF model_name = "pon"
            THEN build_pyramid_occupancy_network(cfg)
            ELSE IF model_name = "hpon"
            THEN build_horizontally_aware_pyramid_occupancy_network(cfg, "stack")
            ELSE IF model_name = "ved"
            THEN build_variational_encoder_decoder(cfg)
            ELSE IF model_name = "vpn"
            THEN build_view_parsing_network(cfg)
            ELSE Raise("ValueError", model_name, <<>>)
    IN  IF built.exc # NoException
        THEN built
        ELSE place_model(built.value, built.events, cfg)

\* Mutant: the loss-function name is tested before the model name.
select_criterion_loss_first(model_name, cfg) ==
    IF cfg.loss_fn = "focal" THEN "FocalLossCriterion"
    ELSE IF cfg.loss_fn = "prior" THEN "PriorOffsetCriterion"
    ELSE IF model_name = "ved" THEN "VaeOccupancyCriterion"
    ELSE "OccupancyCriterion"

\* Lines 44-58 of build_criterion: which criterion class is constructed.
select_criterion(model_name, cfg) ==
    IF model_name = "ved" THEN "VaeOccupancyCriterion"
    ELSE IF cfg.loss_fn = "focal" THEN "FocalLossCriterion"
    ELSE IF cfg.loss_fn = "prior" THEN "PriorOffsetCriterion"
    ELSE "OccupancyCriterion"

\* Mutant: the model name is validated as build_model validates it.
build_criterion_validating(model_name, cfg) ==
    LET criterion == [type |-> select_criterion(model_name, cfg),
                      device |-> cpu]
    IN  IF model_name \notin {"pon", "hpon", "ved", "vpn"}
        THEN Raise("ValueError", model_name, <<>>)
        ELSE IF Len(cfg.gpus) > 0
        THEN Return(cuda(criterion), <<criterion.type, "cuda">>)
        ELSE Return(criterion, <<criterion.type>>)

build_criterion(model_name, cfg) ==
    LET criterion == [type |-> select_criterion(model_name, cfg),
                      device |-> cpu]
    IN  IF Len(cfg.gpus) > 0
        THEN Return(cuda(criterion), <<criterion.type, "cuda">>)
        ELSE Return(criterion, <<criterion.type>>)

---------------------------------------------------------------------------
(* Initial states: the inputs the factories are run on.  The fields one    *)
(* pipeline reads vary while the fields it never reads stay at the         *)
(* defaults.                                                               *)

DefaultConfig ==
    [gpus |-> <<>>, loss_fn |-> "bce", bayesian |-> FALSE,
     hold_out_calibration |-> FALSE, hflip |-> 1,
     map_resolution |-> 1, topdown_strides |-> <<1, 2>>,
     vtfm_channels |-> 1, htfm_channels |-> 1]

SceneLists == {Ascending(S) : S \in SUBSET Scenes}

NoCall == [fn |-> "none", name |-> "", exc |-> NoException,
           value |-> None, events |-> <<>>]

InitData ==
    /\ \E h \in BOOLEAN, f \in HflipValues :
          config = [DefaultConfig EXCEPT !.hold_out_calibration = h,
                                         !.hflip = f]
    /\ TRAIN_SCENES \in SceneLists
    /\ VAL_SCENES \in SceneLists
    /\ CALIBRATION_SCENES \in SceneLists
    /\ current_device = 0

InitPlacement ==
    /\ \E g \in SeqsUpTo(Devices, MaxGpus), l \in LossNames, b \in BOOLEAN :
          config = [DefaultConfig EXCEPT !.gpus = g, !.loss_fn = l,
                                         !.bayesian = b]
    /\ TRAIN_SCENES = Ascending(Scenes)
    /\ VAL_SCENES = <<>>
    /\ CALIBRATION_SCENES = <<>>
    /\ current_device = 0

InitGeometry ==
    /\ \E r \in 1 .. MaxResolution,
          s \in SeqsUpTo(1 .. MaxStride, MaxStrides) \ {<<>>},
          v \in 1 .. MaxChannels, h \in 1 .. MaxChannels :
          config = [DefaultConfig EXCEPT !.map_resolution = r,
                                         !.topdown_strides = s,
                                         !.vtfm_channels = v,
                                         !.htfm_channels = h]
    /\ TRAIN_SCENES = Ascending(Scenes)
    /\ VAL_SCENES = <<>>
    /\ CALIBRATION_SCENES = <<>>
    /\ current_device = 0

Init ==
    /\ (InitData \/ InitPlacement \/ InitGeometry)
    /\ stdout = <<>>
    /\ last = NoCall

---------------------------------------------------------------------------
(* Actions: one call of one factory.                                       *)

Printed(events) == SelectSeq(events, LAMBDA e : e = PROGRESS_MESSAGE)

Outcome(fn, name, r) ==
    [fn |-> fn, name |-> name, exc |-> r.exc, value |-> r.value,
     events |-> r.events]

SetOrders == Perms(SetOf(TRAIN_SCENES) \ SetOf(CALIBRATION_SCENES))

\* Mutant: with the hold-out flag set, the calibration scenes are removed
\* from the module-level TRAIN_SCENES list itself.
Call_build_datasets_in_place ==
    /\ Len(stdout) < MaxPrints
    /\ \E name \in DatasetNames, set_order \in SetOrders :
          LET r == build_datasets(name, config, set_order)
          IN  /\ last' = Outcome("build_datasets", name, r)
              /\ stdout' = stdout \o Printed(r.events)
              /\ TRAIN_SCENES' = IF name = "nuscenes"
                                     /\ config.hold_out_calibration
                                  THEN set_order
                                  ELSE TRAIN_SCENES
    /\ UNCHANGED <<config, VAL_SCENES, CALIBRATION_SCENES, current_device>>

Call_build_datasets ==
    /\ Len(stdout) < MaxPrints
    /\ \E name \in DatasetNames, set_order \in SetOrders :
          LET r == build_datasets(name, config, set_order)
          IN  /\ last' = Outcome("build_datasets", name, r)
              /\ stdout' = stdout \o Printed(r.events)
    /\ UNCHANGED <<config, TRAIN_SCENES, VAL_SCENES, CALIBRATION_SCENES,
                   current_device>>

Call_build_trainval_datasets ==
    /\ Len(stdout) < MaxPrints
    /\ \E name \in DatasetNames, set_order \in SetOrders :
          LET r == build_trainval_datasets(name, config, set_order)
          IN  /\ last' = Outcome("build_trainval_datasets", name, r)
              /\ stdout' = stdout \o Printed(r.events)
    /\ UNCHANGED <<config, TRAIN_SCENES, VAL_SCENES, CALIBRATION_SCENES,
                   current_device>>

Call_build_dataloaders ==
    /\ Len(stdout) < MaxPrints
    /\ \E name \in DatasetNames, set_order \in SetOrders :
          LET r == build_dataloaders(name, config, set_order)
          IN  /\ last' = Outcome("build_dataloaders", name, r)
              /\ stdout' = stdout \o Printed(r.events)
    /\ UNCHANGED <<config, TRAIN_SCENES, VAL_SCENES, CALIBRATION_SCENES,
                   current_device>>

Call_build_model ==
    /\ \E name \in ModelNames :
          LET r == build_model(name, config)
          IN  /\ last' = Outcome("build_model", name, r)
              /\ stdout' = stdout \o Printed(r.events)
    /\ UNCHANGED <<config, TRAIN_SCENES, VAL_SCENES, CALIBRATION_SCENES,
                   current_device>>

Call_build_criterion ==
    /\ \E name \in ModelNames :
          LET r == build_criterion(name, config)
          IN  /\ last' = Outcome("build_criterion", name, r)
              /\ stdout' = stdout \o Printed(r.events)
    /\ UNCHANGED <<config, TRAIN_SCENES, VAL_SCENES, CALIBRATION_SCENES,
                   current_device>>

Next ==
    \/ Call_build_datasets
    \/ Call_build_trainval_datasets
    \/ Call_build_dataloaders
    \/ Call_build_model
    \/ Call_build_criterion

Spec == Init /\ [][Next]_vars

---------------------------------------------------------------------------
(* Vocabulary of the properties.                                           *)

DataFactories ==
    {"build_datasets", "build_trainval_datasets", "build_dataloaders"}

KnownModels == {"pon", "hpon", "ved", "vpn"}

CriterionTypes ==
    {"VaeOccupancyCriterion", "FocalLossCriterion", "PriorOffsetCriterion",
     "OccupancyCriterion"}

Returned == last.fn # "none" /\ last.exc = NoException

\* The model a call of build_model returned, without its replication layer.
BareModel == IF last.value.type = "DataParallel"
             THEN last.value.module
             ELSE last.value

\* The (train, val) datasets behind whatever a data factory returned.
ReturnedTrain == IF last.fn = "build_dataloaders"
                 THEN last.value[1].dataset
                 ELSE last.value[1]

ReturnedVal == IF last.fn = "build_dataloaders"
               THEN last.value[2].dataset
               ELSE last.value[2]

BaseTrain == IF last.fn = "build_datasets"
             THEN ReturnedTrain
             ELSE ReturnedTrain.dataset

RECURSIVE Product(_)
Product(seq) == IF seq = <<>> THEN 1 ELSE Head(seq) * Product(Tail(seq))

Constructed(types) ==
    Cardinality({i \in DOMAIN last.events : last.events[i] \in types})

\* The events of a build_model call that precede device placement.
BuildEvents ==
    SelectSeq(last.events, LAMBDA e : e \notin {"cuda", "DataParallel"})

---------------------------------------------------------------------------
(* C1: a data factory given a dataset name other than 'nuscenes', and      *)
(* build_model given a model name outside pon/hpon/ved/vpn, raises         *)
(* ValueError, returns nothing, and has performed no construction step,    *)
(* print, device placement or wrapping before the raise.                   *)
C1_RaisesBeforeAnyConstruction ==
    (\/ last.fn \in DataFactories /\ last.name # "nuscenes"
     \/ last.fn = "build_model" /\ last.name \notin KnownModels)
    => /\ last.exc = [type |-> "ValueError", arg |-> last.name]
       /\ last.value = None
       /\ last.events = <<>>

C1_Witness ==
    /\ last.fn = "build_dataloaders"
    /\ last.name = "argoverse"
    /\ last.exc.type = "ValueError"
    /\ Len(stdout) = 1

(* C2: build_model returns, for L = len(config.gpus): L = 0 the bare model *)
(* on the host with no device move; L = 1 the bare model on                *)
(* config.gpus[0]; L > 1 a replication layer over exactly config.gpus      *)
(* around the model residing on config.gpus[0].                            *)
C2_ModelPlacedOnFirstConfiguredDevice ==
    (last.fn = "build_model" /\ Returned)
    => LET L == Len(config.gpus)
       IN  /\ L = 0 => /\ last.value.type # "DataParallel"
                       /\ last.value.device = cpu
                       /\ Constructed({"cuda", "DataParallel"}) = 0
           /\ L = 1 => /\ last.value.type # "DataParallel"
                       /\ last.value.device = CudaDevice(config.gpus[1])
           /\ L > 1 => /\ last.value.type = "DataParallel"
                       /\ last.value.device_ids = config.gpus
                       /\ last.value.module.device = CudaDevice(config.gpus[1])

(* C3: build_criterion never wraps the criterion in a replication layer;   *)
(* with len(config.gpus) >= 1 the criterion is on config.gpus[0], with     *)
(* len(config.gpus) = 0 it stays on the host.                              *)
C3_CriterionPlacedOnFirstConfiguredDevice ==
    last.fn = "build_criterion"
    => /\ Returned
       /\ last.value.type \in CriterionTypes
       /\ Constructed({"DataParallel"}) = 0
       /\ Len(config.gpus) >= 1
            => last.value.device = CudaDevice(config.gpus[1])
       /\ Len(config.gpus) = 0
            => last.value.device = cpu /\ Constructed({"cuda"}) = 0

(* C4: build_criterion picks the criterion by first match: model 'ved'     *)
(* gives the variational criterion whatever loss_fn is; else loss_fn      *)
(* 'focal' the focal one; else 'prior' the prior-offset one; else the      *)
(* standard occupancy criterion; one criterion is constructed per call.    *)
C4_CriterionPrecedence ==
    last.fn = "build_criterion"
    => /\ last.name = "ved" => last.value.type = "VaeOccupancyCriterion"
       /\ (last.name # "ved" /\ config.loss_fn = "focal")
            => last.value.type = "FocalLossCriterion"
       /\ (last.name # "ved" /\ config.loss_fn = "prior")
            => last.value.type = "PriorOffsetCriterion"
       /\ (last.name # "ved" /\ config.loss_fn \notin {"focal", "prior"})
            => last.value.type = "OccupancyCriterion"
       /\ Constructed(CriterionTypes) = 1
       /\ last.events[1] = last.value.type

C4_Witness ==
    /\ last.fn = "build_criterion"
    /\ last.name = "ved"
    /\ config.loss_fn = "focal"
    /\ last.value.type = "VaeOccupancyCriterion"

(* C5: for dataset 'nuscenes' the training dataset's scenes are, as a set, *)
(* TRAIN_SCENES minus CALIBRATION_SCENES when hold_out_calibration is set  *)
(* and TRAIN_SCENES otherwise; the validation dataset's scenes are         *)
(* VAL_SCENES in both cases.                                               *)
C5_SceneSplits ==
    (last.fn \in DataFactories /\ last.name = "nuscenes")
    => /\ Returned
       /\ SetOf(BaseTrain.scenes) =
            IF config.hold_out_calibration
            THEN SetOf(TRAIN_SCENES) \ SetOf(CALIBRATION_SCENES)
            ELSE SetOf(TRAIN_SCENES)
       /\ ReturnedVal.scenes = VAL_SCENES

C5_Witness ==
    /\ last.fn = "build_datasets"
    /\ last.name = "nuscenes"
    /\ config.hold_out_calibration
    /\ SetOf(CALIBRATION_SCENES) \cap SetOf(TRAIN_SCENES) # {}
    /\ SetOf(CALIBRATION_SCENES) \cap SetOf(VAL_SCENES) # {}
    /\ SetOf(BaseTrain.scenes) # SetOf(TRAIN_SCENES)
    /\ BaseTrain.scenes # <<>>

(* C6: build_trainval_datasets (and so build_dataloaders) returns as       *)
(* training dataset the augmentation wrapper, built with config.hflip,     *)
(* around the base training dataset, for every config.hflip including 0;   *)
(* the validation dataset is the base dataset, never a wrapper.            *)
C6_OnlyTrainingIsAugmented ==
    (last.fn \in {"build_trainval_datasets", "build_dataloaders"} /\ Returned)
    => /\ ReturnedTrain.type = "AugmentedMapDataset"
       /\ ReturnedTrain.hflip = config.hflip
       /\ ReturnedVal.type = "NuScenesMapDataset"
       /\ \E set_order \in SetOrders :
             LET base == build_datasets(last.name, config, set_order).value
             IN  ReturnedTrain.dataset = base[1] /\ ReturnedVal = base[2]
       /\ last.fn = "build_dataloaders"
            => /\ last.value[1].sampler.data_source = ReturnedTrain
               /\ last.value[2].sampler = None

C6_Witness ==
    /\ last.fn = "build_dataloaders"
    /\ Returned
    /\ config.hflip = 0
    /\ ReturnedTrain.type = "AugmentedMapDataset"

(* C7: build_model builds exactly the parts of the branch its name         *)
(* selects: pon = frontend, vertical pyramid, topdown of input width       *)
(* vtfm_channels, classifier; hpon = frontend, vertical and horizontal     *)
(* pyramid combined by 'stack', topdown of input width vtfm_channels +     *)
(* htfm_channels, classifier; ved and vpn = only their own network.  The   *)
(* classifier is Bayesian exactly when config.bayesian is set.             *)
C7_ModelDispatch ==
    (last.fn = "build_model" /\ last.name \in KnownModels)
    => LET m == BareModel
           head == IF config.bayesian THEN "BayesianClassifier"
                   ELSE "LinearClassifier"
       IN  /\ Returned
           /\ last.name = "pon"
                => /\ m.type = "PyramidOccupancyNetwork"
                   /\ m.frontend.type = "FPN50"
                   /\ m.transformer.type = "VerticalTransformerPyramid"
                   /\ m.topdown.in_channels = config.vtfm_channels
                   /\ m.classifier.type = head
                   /\ BuildEvents =
                        <<"FPN50", "VerticalTransformerPyramid",
                          "TopdownNetwork", head, "initialise",
                          "PyramidOccupancyNetwork">>
           /\ last.name = "hpon"
                => /\ m.type = "HorizontallyAwarePyramidOccupancyNetwork"
                   /\ m.frontend.type = "FPN50"
                   /\ m.v_transformer.type = "VerticalTransformerPyramid"
                   /\ m.h_transformer.type = "HorizontalTransformerPyramid"
                   /\ m.h_transformer.method = "stack"
                   /\ m.topdown.in_channels =
                        config.vtfm_channels + config.htfm_channels
                   /\ m.classifier.type = head
                   /\ BuildEvents =
                        <<"FPN50", "VerticalTransformerPyramid",
                          "HorizontalTransformerPyramid", "TopdownNetwork",
                          head, "initialise",
                          "HorizontallyAwarePyramidOccupancyNetwork">>
           /\ last.name = "ved"
                => /\ m.type = "VariationalEncoderDecoder"
                   /\ BuildEvents = <<"VariationalEncoderDecoder">>
           /\ last.name = "vpn"
                => /\ m.type = "VPNModel"
                   /\ BuildEvents = <<"VPNModel">>

C7_Witness ==
    /\ last.fn = "build_model"
    /\ last.name = "hpon"
    /\ config.bayesian
    /\ BareModel.classifier.type = "BayesianClassifier"
    /\ BareModel.topdown.in_channels = 2

(* C8: the resolution handed to every transformer stage is map_resolution  *)
(* times the product of all topdown strides: the vertical pyramid of pon,  *)
(* both pyramids of hpon, and the same value in both branches.             *)
C8_TransformResolution ==
    LET expected == config.map_resolution * Product(config.topdown_strides)
        pon == build_pyramid_occupancy_network(config).value
        hpon == build_horizontally_aware_pyramid_occupancy_network(
                    config, "stack").value
    IN  /\ (last.fn = "build_model" /\ last.name = "pon")
             => BareModel.transformer.resolution = expected
        /\ (last.fn = "build_model" /\ last.name = "hpon")
             => /\ BareModel.v_transformer.resolution = expected
                /\ BareModel.h_transformer.resolution = expected
        /\ pon.transformer.resolution = hpon.v_transformer.resolution
        /\ pon.transformer.resolution = hpon.h_transformer.resolution

C8_Witness ==
    /\ last.fn = "build_model"
    /\ last.name = "hpon"
    /\ config.map_resolution = 2
    /\ config.topdown_strides = <<2, 2>>
    /\ BareModel.h_transformer.resolution = 8

C10_CriterionAcceptsAnyName ==
    last.fn = "build_criterion"
    => /\ last.exc = NoException
       /\ last.value.type \in CriterionTypes
       /\ (last.name # "ved" /\ config.loss_fn \notin {"focal", "prior"})
            => last.value.type = "OccupancyCriterion"
       /\ last.name \notin KnownModels
            => build_model(last.name, config).exc.type = "ValueError"

C10_Witness ==
    /\ last.fn = "build_criterion"
    /\ last.name = "unet"
    /\ config.loss_fn = "bce"
    /\ last.exc = NoException
    /\ last.value.type = "OccupancyCriterion"

=============================================================================
